---- MODULE Spec2Model ----
(***************************************************************************)
(* Model of tuf/repo.go: the delegated-targets resolution                  *)
(* (targetTreeBuilder / getDelegatedTarget), role-name validation          *)
(* (validateRole) and the role/type check (isRoleCorrect).                 *)
(*                                                                         *)
(* Strings that the code inspects character by character are sequences of  *)
(* one-character strings; a role name is such a sequence everywhere.       *)
(***************************************************************************)
EXTENDS FiniteSets, Integers, Sequences, TLC

VARIABLES
    deleg,         \* metadata: role name -> Signed.Delegations.Roles (names, declared order)
    claims,        \* metadata: role name -> target paths in Signed.Targets
    seen,          \* the fetcher's record of the names it has returned
    fetchLog,      \* every call fetcher.fetch(name), with the error it returned
    appendLog,     \* every call root.append(name, targ), in order
    paths,         \* root.paths: path -> role whose entry owns it
    targetLookup,  \* root.targetLookup: role name -> role whose Targets is stored
    stack,         \* active getDelegatedTarget frames, innermost last
    topIdx,        \* position of targetTreeBuilder's range loop
    target,        \* the Targets just fetched and not yet appended
    err,           \* the error value a returning getDelegatedTarget hands back
    pc,            \* control point
    result,        \* what targetTreeBuilder returned
    r,             \* validateRole / isRoleCorrect argument: the role string
    s,             \* isRoleCorrect argument: dynamic type of the value
    validateOut,   \* outcome of validateRole(r)
    correctOut,    \* outcome of isRoleCorrect(r, s)
    fs,            \* the file system: path -> what is there
    repoPath,      \* newLocalRepo argument
    localOut,      \* what newLocalRepo(repoPath) did
    repoURL,       \* settings.NotaryURL, the newNotaryRepo argument
    notaryOut,     \* what newNotaryRepo(settings, ...) did
    opts,          \* the repoOptions value the options are applied to
    todo,          \* repoOption values still to apply, in order
    applied        \* repoOption values applied so far, in order

travVars == <<deleg, claims, seen, fetchLog, appendLog, paths, targetLookup,
              stack, topIdx, target, err, pc, result>>
roleVars == <<r, s, validateOut, correctOut>>
ctorVars == <<fs, repoPath, localOut, repoURL, notaryOut>>
optVars == <<opts, todo, applied>>
vars == <<deleg, claims, seen, fetchLog, appendLog, paths, targetLookup,
          stack, topIdx, target, err, pc, result, r, s, validateOut, correctOut,
          fs, repoPath, localOut, repoURL, notaryOut, opts, todo, applied>>

(***************************************************************************)
(* Program constants                                                       *)
(***************************************************************************)
maxDelegationCount == 50

roleRoot == <<"r", "o", "o", "t">>
roleTargets == <<"t", "a", "r", "g", "e", "t", "s">>
roleSnapshot == <<"s", "n", "a", "p", "s", "h", "o", "t">>
roleTimestamp == <<"t", "i", "m", "e", "s", "t", "a", "m", "p">>

(***************************************************************************)
(* Bounds of the model                                                     *)
(***************************************************************************)
MaxEdges == 4      \* delegations in an enumerated graph, all roles together
Groups == 8        \* roles that delegate, in the graphs larger than maxDelegationCount
Leaves == 7        \* delegations of each of them
MaxPrefix == 2     \* characters put in front of a role-name ending to make an input
MaxOptions == 3    \* options given to one fetch

(***************************************************************************)
(* Error values                                                            *)
(***************************************************************************)
NoRole == <<>>
nil == [kind |-> "nil", role |-> NoRole]
errTargetSeen == [kind |-> "errTargetSeen", role |-> NoRole]
errFetch(name) == [kind |-> "errFetch", role |-> name]
errInvalidRole(name) == [kind |-> "is not a valid role", role |-> name]
notCalled == [kind |-> "not called", role |-> NoRole]

(***************************************************************************)
(* Delegation metadata the resolution is run on                            *)
(***************************************************************************)
DelegA == roleTargets \o <<"/", "a">>
DelegB == roleTargets \o <<"/", "b">>
DelegC == roleTargets \o <<"/", "c">>
SmallNames == {roleTargets, DelegA, DelegB}

Digit == <<"0", "1", "2", "3", "4", "5", "6", "7", "8", "9">>
DelegN(n) == <<"d", Digit[(n \div 10) + 1], Digit[(n % 10) + 1]>>
GroupName(g) == DelegN(10 * g)
LeafName(g, k) == DelegN(10 * g + k)
GroupNames == {GroupName(g) : g \in 1..Groups}
LeafNames == {LeafName(g, k) : g \in 1..Groups, k \in 1..Leaves}
GroupOf(n) == CHOOSE g \in 1..Groups : GroupName(g) = n

\* every graph over SmallNames with at most MaxEdges delegations in total
SmallGraphs ==
    UNION { { [n \in SmallNames |-> IF n = roleTargets THEN t
                                     ELSE IF n = DelegA THEN a ELSE b] :
                t \in [1..l[1] -> SmallNames],
                a \in [1..l[2] -> SmallNames],
                b \in [1..l[3] -> SmallNames] } :
            l \in { m \in [1..3 -> 0..MaxEdges] : m[1] + m[2] + m[3] <= MaxEdges } }

\* targets -> a, c ; a -> b ; c -> b
DiamondGraph ==
    [n \in SmallNames \cup {DelegC} |->
        IF n = roleTargets THEN <<DelegA, DelegC>>
        ELSE IF n = DelegA THEN <<DelegB>>
        ELSE IF n = DelegC THEN <<DelegB>>
        ELSE <<>>]

\* targets -> a ; a -> c, b ; c -> b, a
DeepDiamondGraph ==
    [n \in SmallNames \cup {DelegC} |->
        IF n = roleTargets THEN <<DelegA>>
        ELSE IF n = DelegA THEN <<DelegC, DelegB>>
        ELSE IF n = DelegC THEN <<DelegB, DelegA>>
        ELSE <<>>]

\* more roles than maxDelegationCount, the groups delegated by targets itself:
\* targets -> d10, d20, ... ; d10 -> d11, d12, ... ; d20 -> d21, d22, ...
WideGraph ==
    [n \in {roleTargets} \cup GroupNames \cup LeafNames |->
        IF n = roleTargets THEN [g \in 1..Groups |-> GroupName(g)]
        ELSE IF n \in GroupNames THEN [k \in 1..Leaves |-> LeafName(GroupOf(n), k)]
        ELSE <<>>]

\* the same roles, the groups delegated by targets/a: targets -> a ; a -> d10, d20, ...
NestedWideGraph ==
    [n \in {roleTargets, DelegA} \cup GroupNames \cup LeafNames |->
        IF n = roleTargets THEN <<DelegA>>
        ELSE IF n = DelegA THEN [g \in 1..Groups |-> GroupName(g)]
        ELSE IF n \in GroupNames THEN [k \in 1..Leaves |-> LeafName(GroupOf(n), k)]
        ELSE <<>>]

Graphs == SmallGraphs \cup {DiamondGraph, DeepDiamondGraph, WideGraph, NestedWideGraph}

Paths == {"/x", "/y"}

\* the target paths each role's metadata lists, three assignments
ClaimProfiles == {"ab", "ba", "top"}
ClaimsOf(profile, n) ==
    CASE profile = "ab"  -> IF n = DelegA THEN {"/x"}
                            ELSE IF n = DelegB THEN {"/x", "/y"}
                            ELSE IF n = DelegC THEN {"/y"} ELSE {}
      [] profile = "ba"  -> IF n = DelegA THEN {"/y"}
                            ELSE IF n = DelegB THEN {"/x"}
                            ELSE IF n = DelegC THEN {"/x", "/y"} ELSE {}
      [] OTHER           -> IF n = roleTargets THEN {"/x"}
                            ELSE IF n = DelegA THEN {"/x", "/y"}
                            ELSE IF n = DelegB THEN {"/y"} ELSE {"/x"}

(***************************************************************************)
(* roleFetcher.fetch: the results a call fetch(name) can have.  It refuses *)
(* a name it has already returned, and any new name once                   *)
(* maxDelegationCount names were returned, with errTargetSeen; otherwise   *)
(* it returns the role's Targets or fails.                                 *)
(***************************************************************************)
\* variant: a fetcher that returns a role again when asked for it again
fetchAgain(name) ==
    IF name \notin DOMAIN deleg THEN {errFetch(name)}
    ELSE {nil, errFetch(name)}

fetch(name) ==
    IF name \in seen THEN {errTargetSeen}
    ELSE IF Cardinality(seen) >= maxDelegationCount THEN {errTargetSeen}
    ELSE IF name \notin DOMAIN deleg THEN {errFetch(name)}
    ELSE {nil, errFetch(name)}

(***************************************************************************)
(* RootTarget.append: store the Targets under the role name, and give the  *)
(* role each of its paths that no earlier role owns.                       *)
(***************************************************************************)
appendPaths(name) ==
    [p \in (DOMAIN paths) \cup claims[name] |->
        IF p \in DOMAIN paths THEN paths[p] ELSE name]

appendLookup(name) ==
    [n \in (DOMAIN targetLookup) \cup {name} |->
        IF n = name THEN name ELSE targetLookup[n]]

\* variant: the delegations are walked from the last to the first
delegationAtReversed(name, i) == deleg[name][Len(deleg[name]) - i + 1]

\* the delegation a range loop at position i of role name's Targets yields
delegationAt(name, i) == deleg[name][i]

\* variant: the loop goes on whatever the recursive call returned
swallowedAny(e) == e = e

\* variant: the loop goes on after a nil result only, the sentinel is returned
swallowedNilOnly(e) == e = nil

\* the error test of getDelegatedTarget's loop: TRUE when the loop goes on
swallowed(e) == e = errTargetSeen \/ e = nil

\* the error test of targetTreeBuilder's loop: TRUE when the loop goes on
topSwallowed(e) == e = nil

Top == stack[Len(stack)]
Pop == SubSeq(stack, 1, Len(stack) - 1)
SetTopIdx(i) == [stack EXCEPT ![Len(stack)].i = i]

Empty == [x \in {} |-> {}]

(***************************************************************************)
(* The resolution as a state machine                                       *)
(***************************************************************************)
RoleIdle == r = <<>> /\ s = "none" /\ validateOut = notCalled /\ correctOut = "idle"

\* zero values of repoOptions
freshOptions == [version |-> 0, expectedLength |-> 0, tests |-> <<>>]

LocalIdle ==
    /\ fs = Empty /\ repoPath = ""
    /\ localOut = [status |-> "not called", repoPath |-> "", err |-> ""]
NotaryIdle ==
    /\ repoURL = <<>>
    /\ notaryOut = [status |-> "not called", scheme |-> <<>>, err |-> ""]
OptionsIdle == opts = freshOptions /\ todo = <<>> /\ applied = <<>>

Init ==
    /\ deleg \in Graphs
    /\ \E profile \in ClaimProfiles :
           claims = [n \in DOMAIN deleg |-> ClaimsOf(profile, n)]
    /\ seen = {}
    /\ fetchLog = <<>>
    /\ appendLog = <<>>
    /\ paths = Empty
    /\ targetLookup = Empty
    /\ stack = <<>>
    /\ topIdx = 0
    /\ target = NoRole
    /\ err = nil
    /\ pc = "top_fetch"
    /\ result = [tree |-> FALSE, err |-> nil]
    /\ RoleIdle
    /\ LocalIdle /\ NotaryIdle /\ OptionsIdle

\* targetTreeBuilder, lines 189-192: fetch the top-level targets role
TopFetch ==
    /\ pc = "top_fetch"
    /\ \E e \in fetch(roleTargets) :
        /\ fetchLog' = Append(fetchLog, [name |-> roleTargets, err |-> e])
        /\ IF e # nil
           THEN /\ result' = [tree |-> FALSE, err |-> e]
                /\ pc' = "done"
                /\ UNCHANGED <<seen, target>>
           ELSE /\ seen' = seen \cup {roleTargets}
                /\ target' = roleTargets
                /\ pc' = "top_append"
                /\ UNCHANGED result
    /\ UNCHANGED <<deleg, claims, appendLog, paths, targetLookup, stack, topIdx, err>>
    /\ UNCHANGED roleVars
    /\ UNCHANGED <<ctorVars, optVars>>

\* variant: the RootTarget is built but the top-level role is not recorded
TopAppendSkipped ==
    /\ pc = "top_append"
    /\ target' = NoRole
    /\ topIdx' = 1
    /\ pc' = "top_loop"
    /\ UNCHANGED <<deleg, claims, seen, fetchLog, appendLog, paths, targetLookup,
                   stack, err, result>>
    /\ UNCHANGED roleVars
    /\ UNCHANGED <<ctorVars, optVars>>

\* targetTreeBuilder, lines 193-198: build the RootTarget and record targets
TopAppend ==
    /\ pc = "top_append"
    /\ paths' = appendPaths(roleTargets)
    /\ targetLookup' = appendLookup(roleTargets)
    /\ appendLog' = Append(appendLog, roleTargets)
    /\ target' = NoRole
    /\ topIdx' = 1
    /\ pc' = "top_loop"
    /\ UNCHANGED <<deleg, claims, seen, fetchLog, stack, err, result>>
    /\ UNCHANGED roleVars
    /\ UNCHANGED <<ctorVars, optVars>>

\* targetTreeBuilder, lines 200-201: call getDelegatedTarget for the next delegation
TopCall ==
    /\ pc = "top_loop"
    /\ topIdx <= Len(deleg[roleTargets])
    /\ stack' = <<[roleName |-> delegationAt(roleTargets, topIdx), i |-> 0]>>
    /\ pc' = "fetch"
    /\ UNCHANGED <<deleg, claims, seen, fetchLog, appendLog, paths, targetLookup,
                   topIdx, target, err, result>>
    /\ UNCHANGED roleVars
    /\ UNCHANGED <<ctorVars, optVars>>

\* targetTreeBuilder, line 206: the loop is over, return the tree
TopDone ==
    /\ pc = "top_loop"
    /\ topIdx > Len(deleg[roleTargets])
    /\ result' = [tree |-> TRUE, err |-> nil]
    /\ pc' = "done"
    /\ UNCHANGED <<deleg, claims, seen, fetchLog, appendLog, paths, targetLookup,
                   stack, topIdx, target, err>>
    /\ UNCHANGED roleVars
    /\ UNCHANGED <<ctorVars, optVars>>

\* targetTreeBuilder, lines 202-204: the call returned
TopReturn ==
    /\ pc = "return"
    /\ stack = <<>>
    /\ IF topSwallowed(err)
       THEN /\ topIdx' = topIdx + 1
            /\ pc' = "top_loop"
            /\ UNCHANGED result
       ELSE /\ result' = [tree |-> FALSE, err |-> err]
            /\ pc' = "done"
            /\ UNCHANGED topIdx
    /\ UNCHANGED <<deleg, claims, seen, fetchLog, appendLog, paths, targetLookup,
                   stack, target, err>>
    /\ UNCHANGED roleVars
    /\ UNCHANGED <<ctorVars, optVars>>

\* variant: errTargetSeen from the fetch is treated like a successful fetch
FetchSeenAccepted ==
    /\ pc = "fetch"
    /\ \E e \in fetch(Top.roleName) :
        /\ fetchLog' = Append(fetchLog, [name |-> Top.roleName, err |-> e])
        /\ IF e # nil /\ e # errTargetSeen
           THEN /\ err' = e
                /\ stack' = Pop
                /\ pc' = "return"
                /\ UNCHANGED <<seen, target>>
           ELSE /\ seen' = seen \cup {Top.roleName}
                /\ target' = Top.roleName
                /\ pc' = "append"
                /\ UNCHANGED <<err, stack>>
    /\ UNCHANGED <<deleg, claims, appendLog, paths, targetLookup, topIdx, result>>
    /\ UNCHANGED roleVars
    /\ UNCHANGED <<ctorVars, optVars>>

\* getDelegatedTarget, lines 210-213: fetch the role, return the error if any
Fetch ==
    /\ pc = "fetch"
    /\ \E e \in fetch(Top.roleName) :
        /\ fetchLog' = Append(fetchLog, [name |-> Top.roleName, err |-> e])
        /\ IF e # nil
           THEN /\ err' = e
                /\ stack' = Pop
                /\ pc' = "return"
                /\ UNCHANGED <<seen, target>>
           ELSE /\ seen' = seen \cup {Top.roleName}
                /\ target' = Top.roleName
                /\ pc' = "append"
                /\ UNCHANGED <<err, stack>>
    /\ UNCHANGED <<deleg, claims, appendLog, paths, targetLookup, topIdx, result>>
    /\ UNCHANGED roleVars
    /\ UNCHANGED <<ctorVars, optVars>>

\* variant: the fetched role is expanded without being recorded
AppendRoleSkipped ==
    /\ pc = "append"
    /\ target' = NoRole
    /\ stack' = SetTopIdx(1)
    /\ pc' = "loop"
    /\ UNCHANGED <<deleg, claims, seen, fetchLog, appendLog, paths, targetLookup,
                   topIdx, err, result>>
    /\ UNCHANGED roleVars
    /\ UNCHANGED <<ctorVars, optVars>>

\* getDelegatedTarget, line 214: record the role in the tree
AppendRole ==
    /\ pc = "append"
    /\ paths' = appendPaths(Top.roleName)
    /\ targetLookup' = appendLookup(Top.roleName)
    /\ appendLog' = Append(appendLog, Top.roleName)
    /\ target' = NoRole
    /\ stack' = SetTopIdx(1)
    /\ pc' = "loop"
    /\ UNCHANGED <<deleg, claims, seen, fetchLog, topIdx, err, result>>
    /\ UNCHANGED roleVars
    /\ UNCHANGED <<ctorVars, optVars>>

\* getDelegatedTarget, lines 215-216: recurse into the next delegation
Recurse ==
    /\ pc = "loop"
    /\ Top.i <= Len(deleg[Top.roleName])
    /\ stack' = Append(stack, [roleName |-> delegationAt(Top.roleName, Top.i), i |-> 0])
    /\ pc' = "fetch"
    /\ UNCHANGED <<deleg, claims, seen, fetchLog, appendLog, paths, targetLookup,
                   topIdx, target, err, result>>
    /\ UNCHANGED roleVars
    /\ UNCHANGED <<ctorVars, optVars>>

\* getDelegatedTarget, line 225: the loop is over, return nil
ReturnNil ==
    /\ pc = "loop"
    /\ Top.i > Len(deleg[Top.roleName])
    /\ stack' = Pop
    /\ err' = nil
    /\ pc' = "return"
    /\ UNCHANGED <<deleg, claims, seen, fetchLog, appendLog, paths, targetLookup,
                   topIdx, target, result>>
    /\ UNCHANGED roleVars
    /\ UNCHANGED <<ctorVars, optVars>>

\* variant: errTargetSeen ends the loop (break) instead of skipping one delegation
ReturnedBreak ==
    /\ pc = "return"
    /\ stack # <<>>
    /\ IF err = nil
       THEN /\ stack' = SetTopIdx(Top.i + 1)
            /\ pc' = "loop"
            /\ UNCHANGED err
       ELSE IF err = errTargetSeen
       THEN /\ stack' = SetTopIdx(Len(deleg[Top.roleName]) + 1)
            /\ err' = nil
            /\ pc' = "loop"
       ELSE /\ stack' = Pop
            /\ pc' = "return"
            /\ UNCHANGED err
    /\ UNCHANGED <<deleg, claims, seen, fetchLog, appendLog, paths, targetLookup,
                   topIdx, target, result>>
    /\ UNCHANGED roleVars
    /\ UNCHANGED <<ctorVars, optVars>>

\* getDelegatedTarget, lines 217-223: the recursive call returned
Returned ==
    /\ pc = "return"
    /\ stack # <<>>
    /\ IF swallowed(err)
       THEN /\ stack' = SetTopIdx(Top.i + 1)
            /\ err' = nil
            /\ pc' = "loop"
       ELSE /\ stack' = Pop
            /\ pc' = "return"
            /\ UNCHANGED err
    /\ UNCHANGED <<deleg, claims, seen, fetchLog, appendLog, paths, targetLookup,
                   topIdx, target, result>>
    /\ UNCHANGED roleVars
    /\ UNCHANGED <<ctorVars, optVars>>

Next ==
    \/ TopFetch
    \/ TopAppend
    \/ TopCall
    \/ TopDone
    \/ TopReturn
    \/ Fetch
    \/ AppendRole
    \/ Recurse
    \/ ReturnNil
    \/ Returned

Spec == Init /\ [][Next]_vars

\* the resolution is one sequential call: a step that can be taken is taken
FairSpec == Spec /\ WF_vars(Next)

TypeOK ==
    /\ pc \in {"top_fetch", "top_append", "top_loop", "fetch", "append", "loop", "return", "done"}
    /\ seen \subseteq DOMAIN deleg
    /\ DOMAIN targetLookup \subseteq seen

(***************************************************************************)
(* Role identity: validateRole and isRoleCorrect                           *)
(***************************************************************************)
Digits == {"0", "1", "2", "3", "4", "5", "6", "7", "8", "9"}
NonZeroDigits == Digits \ {"0"}
DotRoot == <<".">> \o roleRoot

\* ^[1-9]*[0-9]+\.root$ : j characters of [1-9], then k >= 1 of [0-9], then ".root"
matchVersionedRoot(str) ==
    \E j \in 0..Len(str), k \in 1..Len(str) :
        /\ j + k + Len(DotRoot) = Len(str)
        /\ \A i \in 1..j : str[i] \in NonZeroDigits
        /\ \A i \in (j + 1)..(j + k) : str[i] \in Digits
        /\ SubSeq(str, j + k + 1, Len(str)) = DotRoot

\* roleRegex: ^root$|^[1-9]*[0-9]+\.root$|^snapshot$|^timestamp$|^targets$
roleRegex(str) ==
    \/ str = <<"r", "o", "o", "t">>
    \/ matchVersionedRoot(str)
    \/ str = <<"s", "n", "a", "p", "s", "h", "o", "t">>
    \/ str = <<"t", "i", "m", "e", "s", "t", "a", "m", "p">>
    \/ str = <<"t", "a", "r", "g", "e", "t", "s">>

validateRole(role) ==
    IF ~ roleRegex(role) THEN errInvalidRole(role) ELSE nil

RootTypes == {"Root", "*Root"}
TargetsTypes == {"Targets", "*Targets"}
TimestampTypes == {"Timestamp", "*Timestamp"}
SnapshotTypes == {"Snapshot", "*Snapshot"}
ValueTypes == RootTypes \cup TargetsTypes \cup TimestampTypes \cup SnapshotTypes \cup {"string"}

isRoleCorrect(role, type) ==
    LET hit == CASE type \in RootTypes -> role = roleRoot
                 [] type \in TargetsTypes -> role = roleTargets
                 [] type \in TimestampTypes -> role = roleTimestamp
                 [] type \in SnapshotTypes -> role = roleSnapshot
                 [] OTHER -> FALSE
    IN  IF ~ hit THEN "panic" ELSE "returned"

\* role strings given to the two functions: a short prefix before an ending
PrefixChars == {"0", "1", "7", ".", "x"}
Prefixes == UNION {[1..n -> PrefixChars] : n \in 0..MaxPrefix}
Endings ==
    {<<>>, roleRoot, DotRoot, roleSnapshot, roleTimestamp, roleTargets, DelegA,
     <<".", "r", "o", "o">>, DotRoot \o <<"\n">>}
RoleInputs == {p \o e : p \in Prefixes, e \in Endings}

TraversalIdle ==
    /\ deleg = Empty /\ claims = Empty /\ seen = {}
    /\ fetchLog = <<>> /\ appendLog = <<>>
    /\ paths = Empty /\ targetLookup = Empty
    /\ stack = <<>> /\ topIdx = 0 /\ target = NoRole /\ err = nil
    /\ pc = "idle" /\ result = [tree |-> FALSE, err |-> nil]

InitRole ==
    /\ r \in RoleInputs
    /\ s \in ValueTypes
    /\ validateOut = notCalled
    /\ correctOut = "idle"
    /\ TraversalIdle
    /\ LocalIdle /\ NotaryIdle /\ OptionsIdle

ValidateRole ==
    /\ pc = "idle"
    /\ validateOut = notCalled
    /\ validateOut' = validateRole(r)
    /\ UNCHANGED <<r, s, correctOut>>
    /\ UNCHANGED travVars
    /\ UNCHANGED <<ctorVars, optVars>>

IsRoleCorrect ==
    /\ pc = "idle"
    /\ correctOut = "idle"
    /\ correctOut' = isRoleCorrect(r, s)
    /\ UNCHANGED <<r, s, validateOut>>
    /\ UNCHANGED travVars
    /\ UNCHANGED <<ctorVars, optVars>>

NextRole ==
    \/ ValidateRole
    \/ IsRoleCorrect

SpecRole == InitRole /\ [][NextRole]_vars

(***************************************************************************)
(* Local repository handle: newLocalRepo, validatePath, baseDir            *)
(***************************************************************************)
FsPaths == {"/repo", "/data", "/link"}
FsEntries ==
    {[kind |-> k, to |-> ""] : k \in {"absent", "file", "dir", "denied"}}
        \cup {[kind |-> "symlink", to |-> p] : p \in FsPaths}

\* os.Stat: follows symbolic links; fi is present only when err is empty
RECURSIVE statFollow(_, _)
statFollow(path, hops) ==
    LET e == fs[path]
    IN  CASE e.kind = "absent" -> [fi |-> FALSE, isDir |-> FALSE, err |-> "ENOENT"]
          [] e.kind = "denied" -> [fi |-> FALSE, isDir |-> FALSE, err |-> "EACCES"]
          [] e.kind = "file" -> [fi |-> TRUE, isDir |-> FALSE, err |-> ""]
          [] e.kind = "dir" -> [fi |-> TRUE, isDir |-> TRUE, err |-> ""]
          [] OTHER -> IF hops = 0
                      THEN [fi |-> FALSE, isDir |-> FALSE, err |-> "ELOOP"]
                      ELSE statFollow(e.to, hops - 1)
osStat(path) == statFollow(path, Cardinality(FsPaths))
osIsNotExist(e) == e = "ENOENT"

\* variant: the directory test is missing
validatePathAnyKind(path) ==
    LET st == osStat(path)
    IN  IF osIsNotExist(st.err) THEN "tuf repo path validation failed"
        ELSE IF ~ st.fi THEN "panic"
        ELSE ""

\* validatePath: "" is the nil error; fi.IsDir() on the nil FileInfo that
\* os.Stat returns with an error is a nil dereference
validatePath(path) ==
    LET st == osStat(path)
    IN  IF osIsNotExist(st.err) THEN "tuf repo path validation failed"
        ELSE IF ~ st.fi THEN "panic"
        ELSE IF ~ st.isDir THEN "tuf repo path must be a directory"
        ELSE ""

newLocalRepo(path) ==
    LET e == validatePath(path)
    IN  IF e = "panic" THEN [status |-> "panic", repoPath |-> "", err |-> ""]
        ELSE IF e # "" THEN [status |-> "error", repoPath |-> "", err |-> "new tuf repo: " \o e]
        ELSE [status |-> "ok", repoPath |-> path, err |-> ""]

baseDir(handle) == handle.repoPath

InitLocal ==
    /\ fs \in [FsPaths -> FsEntries]
    /\ repoPath \in FsPaths
    /\ localOut = [status |-> "not called", repoPath |-> "", err |-> ""]
    /\ NotaryIdle /\ OptionsIdle
    /\ RoleIdle
    /\ TraversalIdle

NewLocalRepo ==
    /\ pc = "idle"
    /\ localOut.status = "not called"
    /\ localOut' = newLocalRepo(repoPath)
    /\ UNCHANGED <<fs, repoPath, repoURL, notaryOut>>
    /\ UNCHANGED <<travVars, roleVars, optVars>>

NextLocal == NewLocalRepo

SpecLocal == InitLocal /\ [][NextLocal]_vars

(***************************************************************************)
(* Remote repository handle: newNotaryRepo, validateURL.  A URL is a       *)
(* sequence of one-character strings.                                      *)
(***************************************************************************)
tufURLScheme == <<"h", "t", "t", "p", "s">>

LowerLetters == {"f", "h", "o", "p", "s", "t"}
UpperLetters == {"H", "P", "S", "T"}
HexDigits == Digits \cup {"f"}
toLower(c) ==
    CASE c = "H" -> "h" [] c = "P" -> "p" [] c = "S" -> "s" [] c = "T" -> "t" [] OTHER -> c
IndexOf(str, c) ==
    IF \E i \in 1..Len(str) : str[i] = c
    THEN CHOOSE i \in 1..Len(str) : str[i] = c /\ \A j \in 1..(i - 1) : str[j] # c
    ELSE 0
LastIndexOf(str, c) ==
    IF \E i \in 1..Len(str) : str[i] = c
    THEN CHOOSE i \in 1..Len(str) : str[i] = c /\ \A j \in (i + 1)..Len(str) : str[j] # c
    ELSE 0
HasPrefix(str, pre) == Len(str) >= Len(pre) /\ SubSeq(str, 1, Len(pre)) = pre

\* net/url getScheme: the scheme ends at the first ':' if only letters, and
\* after the first character digits + - . , come before it
RECURSIVE getSchemeFrom(_, _)
getSchemeFrom(raw, i) ==
    IF i > Len(raw) THEN [scheme |-> <<>>, rest |-> raw, err |-> ""]
    ELSE IF raw[i] \in LowerLetters \cup UpperLetters THEN getSchemeFrom(raw, i + 1)
    ELSE IF raw[i] \in Digits \cup {"+", "-", "."}
         THEN IF i = 1 THEN [scheme |-> <<>>, rest |-> raw, err |-> ""]
              ELSE getSchemeFrom(raw, i + 1)
    ELSE IF raw[i] = ":"
         THEN IF i = 1 THEN [scheme |-> <<>>, rest |-> <<>>, err |-> "missing protocol scheme"]
              ELSE [scheme |-> SubSeq(raw, 1, i - 1), rest |-> SubSeq(raw, i + 1, Len(raw)), err |-> ""]
    ELSE [scheme |-> <<>>, rest |-> raw, err |-> ""]
getScheme(raw) == getSchemeFrom(raw, 1)

\* net/url parseAuthority, the port test: what follows the last ':' of the
\* host is digits only
validOptionalPort(host) ==
    LET c == LastIndexOf(host, ":")
    IN  c = 0 \/ \A i \in (c + 1)..Len(host) : host[i] \in Digits

\* net/url unescape, the test of the path: '%' is followed by two hex digits
validEscapes(str) ==
    \A i \in 1..Len(str) :
        str[i] = "%" => (i + 2 <= Len(str) /\ str[i + 1] \in HexDigits /\ str[i + 2] \in HexDigits)

\* url.Parse: the scheme, lower-cased, or the error
urlParse(raw) ==
    IF \E i \in 1..Len(raw) : raw[i] = "\n"
    THEN [scheme |-> <<>>, err |-> "invalid control character in URL"]
    ELSE
    LET g == getScheme(raw)
        scheme == [i \in 1..Len(g.scheme) |-> toLower(g.scheme[i])]
        rest == g.rest
        slash == IndexOf(rest, "/")
        segment == IF slash = 0 THEN rest ELSE SubSeq(rest, 1, slash - 1)
        afterSlashes == SubSeq(rest, 3, Len(rest))
        hostEnd == IndexOf(afterSlashes, "/")
        authority == IF hostEnd = 0 THEN afterSlashes ELSE SubSeq(afterSlashes, 1, hostEnd - 1)
        path == IF hostEnd = 0 THEN <<>> ELSE SubSeq(afterSlashes, hostEnd, Len(afterSlashes))
    IN  IF g.err # "" THEN [scheme |-> <<>>, err |-> g.err]
        ELSE IF ~ HasPrefix(rest, <<"/">>) /\ scheme # <<>>
        THEN [scheme |-> scheme, err |-> ""]
        ELSE IF ~ HasPrefix(rest, <<"/">>) /\ IndexOf(segment, ":") # 0
        THEN [scheme |-> <<>>, err |-> "first path segment in URL cannot contain colon"]
        ELSE IF HasPrefix(rest, <<"/", "/">>) /\ ~ HasPrefix(rest, <<"/", "/", "/">>)
        THEN IF ~ validOptionalPort(authority)
             THEN [scheme |-> <<>>, err |-> "invalid port after host"]
             ELSE IF ~ validEscapes(path)
             THEN [scheme |-> <<>>, err |-> "invalid URL escape"]
             ELSE [scheme |-> scheme, err |-> ""]
        ELSE IF ~ validEscapes(rest)
        THEN [scheme |-> <<>>, err |-> "invalid URL escape"]
        ELSE [scheme |-> scheme, err |-> ""]

\* variant: the scheme of the parsed URL is not looked at
validateURLAnyScheme(raw) ==
    LET u == urlParse(raw)
    IN  IF u.err # ""
        THEN [url |-> FALSE, scheme |-> <<>>, err |-> "tuf remote repo url validation failed: " \o u.err]
        ELSE [url |-> TRUE, scheme |-> u.scheme, err |-> ""]

validateURL(raw) ==
    LET u == urlParse(raw)
    IN  IF u.err # ""
        THEN [url |-> FALSE, scheme |-> <<>>, err |-> "tuf remote repo url validation failed: " \o u.err]
        ELSE IF u.scheme # tufURLScheme
        THEN [url |-> FALSE, scheme |-> <<>>, err |-> "tuf url scheme must be https"]
        ELSE [url |-> TRUE, scheme |-> u.scheme, err |-> ""]

\* the handle is r with r.url set, or nil with the error
newNotaryRepo(raw) ==
    LET v == validateURL(raw)
    IN  IF v.err # "" THEN [status |-> "error", scheme |-> <<>>, err |-> v.err]
        ELSE [status |-> "ok", scheme |-> v.scheme, err |-> ""]

UrlSchemes ==
    {<<>>, tufURLScheme, <<"h", "t", "t", "p">>, <<"H", "T", "T", "P", "S">>,
     <<"H", "t", "t", "p", "s">>, <<"f", "t", "p">>, <<"1", "h", "t", "t", "p", "s">>,
     <<"h", "t", "t", "p", "s", "+", "1">>, <<"h", "t", "t", "p", " ", "s">>}
UrlSeparators == {<<>>, <<":">>, <<":", "/", "/">>, <<"/", "/">>}
UrlRests ==
    {<<>>, <<"o">>, <<"o", "/", "p">>, <<"o", ":", "1", "/", "p">>, <<"o", ":", "p", "/", "p">>,
     <<"o", "/", "%", "p", "p">>, <<"o", "/", "%", "1", "f">>, <<"o", "\n">>}
RawURLs == {a \o b \o c : a \in UrlSchemes, b \in UrlSeparators, c \in UrlRests}

InitNotary ==
    /\ repoURL \in RawURLs
    /\ notaryOut = [status |-> "not called", scheme |-> <<>>, err |-> ""]
    /\ LocalIdle /\ OptionsIdle
    /\ RoleIdle
    /\ TraversalIdle

NewNotaryRepo ==
    /\ pc = "idle"
    /\ notaryOut.status = "not called"
    /\ notaryOut' = newNotaryRepo(repoURL)
    /\ UNCHANGED <<fs, repoPath, localOut, repoURL>>
    /\ UNCHANGED <<travVars, roleVars, optVars>>

NextNotary == NewNotaryRepo

SpecNotary == InitNotary /\ [][NextNotary]_vars

(***************************************************************************)
(* Fetch options: repoOption values applied to a repoOptions               *)
(***************************************************************************)
\* variant: the option stores a new repoOptions holding only the version
withRootVersionOverwriting(version, o) ==
    [version |-> version, expectedLength |-> 0, tests |-> <<>>]

withRootVersion(version, o) == [o EXCEPT !.version = version]
withRoleExpectedLength(len, o) == [o EXCEPT !.expectedLength = len]
withRoleTest(t, o) == [o EXCEPT !.tests = Append(@, t)]

\* calling the repoOption on the options value
applyOption(opt, o) ==
    CASE opt.kind = "withRootVersion" -> withRootVersion(opt.arg, o)
      [] opt.kind = "withRoleExpectedLength" -> withRoleExpectedLength(opt.arg, o)
      [] OTHER -> withRoleTest(opt.arg, o)

\* the options a caller can build; a tester is named by a number
RepoOptionValues ==
    {[kind |-> "withRootVersion", arg |-> v] : v \in {1, 2}}
        \cup {[kind |-> "withRoleExpectedLength", arg |-> n] : n \in {10, 20}}
        \cup {[kind |-> "withRoleTest", arg |-> k] : k \in {1, 2}}
OptionLists == UNION {[1..n -> RepoOptionValues] : n \in 0..MaxOptions}

InitOptions ==
    /\ opts = freshOptions
    /\ todo \in OptionLists
    /\ applied = <<>>
    /\ LocalIdle /\ NotaryIdle
    /\ RoleIdle
    /\ TraversalIdle

\* for _, opt := range opts { opt(&options) }, one option
ApplyOption ==
    /\ pc = "idle"
    /\ todo # <<>>
    /\ opts' = applyOption(Head(todo), opts)
    /\ todo' = Tail(todo)
    /\ applied' = Append(applied, Head(todo))
    /\ UNCHANGED <<travVars, roleVars, ctorVars>>

NextOptions == ApplyOption

SpecOptions == InitOptions /\ [][NextOptions]_vars

(***************************************************************************)
(* Reference definitions the properties are stated with                    *)
(***************************************************************************)
Range(q) == {q[i] : i \in DOMAIN q}
IsPrefix(a, b) == Len(a) <= Len(b) /\ \A i \in 1..Len(a) : a[i] = b[i]
Occurrences(q, x) == Cardinality({i \in DOMAIN q : q[i] = x})
FetchedNames == [i \in 1..Len(fetchLog) |-> fetchLog[i].name]
OkFetches(n) == {i \in 1..Len(fetchLog) : fetchLog[i].name = n /\ fetchLog[i].err = nil}
NoFatalFetch == \A i \in 1..Len(fetchLog) : fetchLog[i].err.kind # "errFetch"
AllFetchesSucceeded == \A i \in 1..Len(fetchLog) : fetchLog[i].err = nil

\* roles reachable from a set of roles along delegations
RECURSIVE Closure(_)
Closure(S) ==
    LET T == S \cup UNION {Range(deleg[n]) : n \in S}
    IN  IF T = S THEN S ELSE Closure(T)
Reachable == Closure({roleTargets})
Acyclic == \A n \in Reachable : n \notin Closure(Range(deleg[n]))

\* Preorder depth-first walk of the delegation graph, written recursively:
\* order lists each role once, when first met; calls lists every role met,
\* a role already listed (or met at the cap) included.
RECURSIVE Visit(_, _), VisitAll(_, _, _)
Visit(name, st) ==
    IF name \in Range(st.order) \/ Len(st.order) >= maxDelegationCount
    THEN [st EXCEPT !.calls = Append(@, name)]
    ELSE VisitAll(name, 1, [order |-> Append(st.order, name),
                            calls |-> Append(st.calls, name)])
VisitAll(name, i, st) ==
    IF i > Len(deleg[name]) THEN st
    ELSE VisitAll(name, i + 1, Visit(deleg[name][i], st))
Preorder == Visit(roleTargets, [order |-> <<>>, calls |-> <<>>])

FirstClaimant(p) ==
    LET o == Preorder.order
        k == CHOOSE i \in 1..Len(o) :
                 /\ p \in claims[o[i]]
                 /\ \A j \in 1..(i - 1) : p \notin claims[o[j]]
    IN  o[k]

\* a and b delegate to each other, and both are reachable delegated roles
CycleBetween(a, b) ==
    /\ a # b /\ a # roleTargets /\ b # roleTargets
    /\ a \in Reachable /\ b \in Reachable
    /\ b \in Range(deleg[a]) /\ a \in Range(deleg[b])

(***************************************************************************)
(* Properties                                                              *)
(***************************************************************************)

\* C1: for a graph with a cycle between two delegated roles A and B, both
\* reachable from targets, and no failing fetch, the finished resolution
\* returns a tree whose role lookup has A and B, each recorded exactly once.
C1_CycleResolved ==
    (pc = "done" /\ NoFatalFetch /\ Cardinality(DOMAIN deleg) <= maxDelegationCount) =>
        \A a, b \in DOMAIN deleg :
            CycleBetween(a, b) =>
                /\ result.tree
                /\ {a, b} \subseteq DOMAIN targetLookup
                /\ Occurrences(appendLog, a) = 1
                /\ Occurrences(appendLog, b) = 1

\* C2: for a graph reaching more roles than maxDelegationCount, with no
\* failing fetch, the finished resolution succeeds, has fetched at most
\* maxDelegationCount roles, and its tree holds exactly the roles recorded
\* before the cap.
C2_CapSucceeds ==
    (pc = "done" /\ NoFatalFetch /\ Cardinality(Reachable) > maxDelegationCount) =>
        /\ result.tree
        /\ Cardinality({i \in 1..Len(fetchLog) : fetchLog[i].err = nil}) <= maxDelegationCount
        /\ DOMAIN targetLookup = Range(appendLog)
        /\ Len(appendLog) = maxDelegationCount

\* C3: in a returned tree every claimed path belongs to the first role, in
\* the preorder of the delegation graph, that claims it: when X precedes Y
\* and both claim P, P is never mapped to Y.
C3_FirstVisitWins ==
    result.tree =>
        \A p \in Paths :
            (\E n \in Range(Preorder.order) : p \in claims[n]) =>
                /\ p \in DOMAIN paths
                /\ paths[p] = FirstClaimant(p)
                /\ \A i, j \in 1..Len(Preorder.order) :
                       (i < j /\ p \in claims[Preorder.order[i]]
                              /\ p \in claims[Preorder.order[j]]
                              /\ Preorder.order[i] # Preorder.order[j])
                           => paths[p] # Preorder.order[j]

\* the diamond: b is delegated by a and by c, a and b both claim /x
C3_Witness ==
    /\ result.tree
    /\ deleg = DiamondGraph
    /\ "/x" \in claims[DelegA] /\ "/x" \in claims[DelegB]
    /\ paths["/x"] = DelegA
    /\ \E i \in 1..Len(fetchLog) : fetchLog[i].err = errTargetSeen

\* C4: when targets delegates to A and then B, and A also delegates to B,
\* with no failing fetch, the finished resolution returns a tree (no error)
\* in which B was recorded once.
C4_TopLevelRevisit ==
    (/\ pc = "done"
     /\ NoFatalFetch
     /\ deleg[roleTargets] = <<DelegA, DelegB>>
     /\ DelegB \in Range(deleg[DelegA])) =>
        /\ result.tree
        /\ result.err = nil
        /\ Occurrences(appendLog, DelegB) = 1

\* C5: a fetch that fails with an error other than errTargetSeen is the last
\* fetch of the resolution and the first such failure; that error travels up
\* unchanged and is what targetTreeBuilder returns, with no tree.
C5_FatalErrorPropagates ==
    \A i \in 1..Len(fetchLog) :
        fetchLog[i].err.kind = "errFetch" =>
            /\ i = Len(fetchLog)
            /\ fetchLog[i].err = errFetch(fetchLog[i].name)
            /\ pc \in {"return", "done"}
            /\ pc = "return" => err = fetchLog[i].err
            /\ pc = "done" => result = [tree |-> FALSE, err |-> fetchLog[i].err]

\* a delegate two levels down failed after roles were recorded
C5_Witness ==
    /\ pc = "done"
    /\ Len(fetchLog) >= 3
    /\ fetchLog[Len(fetchLog)].err.kind = "errFetch"
    /\ Len(appendLog) >= 2
    /\ result = [tree |-> FALSE, err |-> fetchLog[Len(fetchLog)].err]

\* C6: the names passed to fetch are, in order, the roles met by the preorder
\* depth-first walk of the delegation graph from targets (declared order
\* within a role, a delegate's subtree before its next sibling), and the
\* roles recorded are the walk's roles in first-met order; a returned tree
\* comes from the complete walk, so it is a function of the metadata.
C6_PreorderFetches ==
    /\ IsPrefix(FetchedNames, Preorder.calls)
    /\ IsPrefix(appendLog, Preorder.order)
    /\ result.tree =>
        /\ FetchedNames = Preorder.calls
        /\ appendLog = Preorder.order
        /\ DOMAIN targetLookup = Range(Preorder.order)

\* a finished walk with a subtree below the first of two siblings
C6_Witness ==
    /\ result.tree
    /\ Len(deleg[roleTargets]) = 2
    /\ deleg[deleg[roleTargets][1]] # <<>>
    /\ Len(appendLog) >= 4
    /\ FetchedNames = Preorder.calls

\* C7 as stated: fetch is never called with a name that an earlier
\* successful fetch already put in the role lookup.
C7_NeverFetchedAgain ==
    \A i \in 1..Len(fetchLog) :
        \A j \in 1..(i - 1) :
            ~ (fetchLog[j].name = fetchLog[i].name /\ fetchLog[j].err = nil)

\* C7 amended: a fetch of a name that is already in the role lookup returns
\* errTargetSeen and records nothing; every name in the lookup was fetched
\* successfully exactly once and recorded exactly once.
C7_RecordedOnce ==
    /\ \A i \in 1..Len(fetchLog) :
           (\E j \in 1..(i - 1) : fetchLog[j].name = fetchLog[i].name /\ fetchLog[j].err = nil)
               => fetchLog[i].err = errTargetSeen
    /\ \A n \in DOMAIN targetLookup :
           /\ Cardinality(OkFetches(n)) = 1
           /\ Occurrences(appendLog, n) = 1
    /\ \A n \in Range(appendLog) : Occurrences(appendLog, n) = 1

\* a visited role was fetched again, refused, and the resolution went on
C7_Witness ==
    /\ result.tree
    /\ \E i \in 1..Len(fetchLog) :
           /\ fetchLog[i].err = errTargetSeen
           /\ fetchLog[i].name \in DOMAIN targetLookup
           /\ i < Len(fetchLog)
           /\ Occurrences(appendLog, fetchLog[i].name) = 1

\* targets -> targets/a, targets/b ; a claims /x ; b claims /x and /y
EndToEnd ==
    /\ deleg = [n \in SmallNames |-> IF n = roleTargets THEN <<DelegA, DelegB>> ELSE <<>>]
    /\ claims = [n \in SmallNames |-> ClaimsOf("ab", n)]

\* C8: for an acyclic graph below the cap in which every fetch succeeded,
\* the finished resolution returns a tree whose role lookup has exactly the
\* roles reachable from targets; in the end-to-end scenario /x belongs to
\* targets/a, /y to targets/b, and the lookup is {targets, targets/a, targets/b}.
C8_AcyclicResolved ==
    (/\ pc = "done"
     /\ Acyclic
     /\ Cardinality(Reachable) <= maxDelegationCount
     /\ AllFetchesSucceeded) =>
        /\ result.tree
        /\ result.err = nil
        /\ DOMAIN targetLookup = Reachable
        /\ EndToEnd =>
            /\ paths = [p \in Paths |-> IF p = "/x" THEN DelegA ELSE DelegB]
            /\ DOMAIN targetLookup = {roleTargets, DelegA, DelegB}

C8_Witness ==
    /\ pc = "done"
    /\ EndToEnd
    /\ AllFetchesSucceeded
    /\ result.tree
    /\ paths["/x"] = DelegA /\ paths["/y"] = DelegB

\* decimal digits denoting a positive integer
IsPositiveInt(d) ==
    /\ Len(d) >= 1
    /\ \A i \in 1..Len(d) : d[i] \in Digits
    /\ \E i \in 1..Len(d) : d[i] # "0"

IsVersionedRoot(str) ==
    /\ Len(str) > Len(DotRoot)
    /\ SubSeq(str, Len(str) - Len(DotRoot) + 1, Len(str)) = DotRoot
    /\ IsPositiveInt(SubSeq(str, 1, Len(str) - Len(DotRoot)))

\* root | <positive-int>.root | snapshot | timestamp | targets
InGrammar(str) ==
    \/ str \in {roleRoot, roleSnapshot, roleTimestamp, roleTargets}
    \/ IsVersionedRoot(str)

IsDelegatedName(str) == str \in {DelegA, DelegB, DelegC}

\* C9: validateRole returns no error exactly for the strings of the grammar
\* root | <positive-int>.root | snapshot | timestamp | targets, and an
\* invalid-role error for every other string.
C9_GrammarOnly ==
    validateOut # notCalled =>
        /\ InGrammar(r) => validateOut = nil
        /\ ~ InGrammar(r) => validateOut = errInvalidRole(r)

\* C10: isRoleCorrect returns exactly for Root with root or a
\* versioned root, Targets with targets or a delegated role name, Timestamp
\* with timestamp, Snapshot with snapshot, and aborts otherwise.
C10_TypeMatchesRole ==
    correctOut # "idle" =>
        (correctOut = "returned" <=>
            \/ s \in RootTypes /\ (r = roleRoot \/ IsVersionedRoot(r))
            \/ s \in TargetsTypes /\ (r = roleTargets \/ IsDelegatedName(r))
            \/ s \in TimestampTypes /\ r = roleTimestamp
            \/ s \in SnapshotTypes /\ r = roleSnapshot)

\* C11: newLocalRepo returns an error and no handle when the path does not
\* exist, an error and no handle when it is a regular file, and a handle
\* whose baseDir() is the path when it is a directory or a link to one.
C11_LocalRepoByPathKind ==
    localOut.status # "not called" =>
        LET st == osStat(repoPath)
        IN  /\ st.err = "ENOENT" =>
                localOut.status = "error" /\ localOut.err # "" /\ localOut.repoPath = ""
            /\ (st.fi /\ ~ st.isDir) =>
                localOut.status = "error" /\ localOut.err # "" /\ localOut.repoPath = ""
            /\ (st.fi /\ st.isDir) =>
                localOut.status = "ok" /\ localOut.err = "" /\ baseDir(localOut) = repoPath

\* a handle made for a symbolic link to a directory
C11_Witness ==
    /\ localOut.status = "ok"
    /\ fs[repoPath].kind = "symlink"
    /\ baseDir(localOut) = repoPath

\* C16: whatever the stat of the path gives (not found, another error, a
\* regular file, a directory), newLocalRepo returns a handle or an error
\* value and never crashes.
C16_NeverCrashes ==
    localOut.status \in {"not called", "ok", "error"}

\* the text starts with the letters of https in either case and a colon
StartsWithHttpsColon(raw) ==
    /\ Len(raw) >= Len(tufURLScheme) + 1
    /\ \A i \in 1..Len(tufURLScheme) : toLower(raw[i]) = tufURLScheme[i]
    /\ raw[Len(tufURLScheme) + 1] = ":"

\* C12: newNotaryRepo returns a handle only when the URL parses and its
\* scheme is https; for http, another scheme, no scheme or a URL that does
\* not parse it returns an error and no handle, so the URL of a handle
\* always has the scheme https.
C12_HttpsOnly ==
    notaryOut.status # "not called" =>
        /\ notaryOut.status \in {"ok", "error"}
        /\ notaryOut.status = "ok" =>
            /\ notaryOut.scheme = tufURLScheme
            /\ notaryOut.err = ""
            /\ urlParse(repoURL).err = ""
            /\ StartsWithHttpsColon(repoURL)
        /\ (urlParse(repoURL).err # "" \/ ~ StartsWithHttpsColon(repoURL)) =>
            notaryOut.status = "error" /\ notaryOut.err # "" /\ notaryOut.scheme = <<>>
        /\ HasPrefix(repoURL, <<"h", "t", "t", "p", ":">>) => notaryOut.status = "error"

\* a handle for https://o:1/p
C12_Witness ==
    /\ notaryOut.status = "ok"
    /\ repoURL = tufURLScheme \o <<":", "/", "/", "o", ":", "1", "/", "p">>
    /\ notaryOut.scheme = tufURLScheme

\* the options of a list applied in order to a fresh repoOptions
RECURSIVE applyAll(_, _)
applyAll(list, o) ==
    IF list = <<>> THEN o ELSE applyAll(Tail(list), applyOption(Head(list), o))

Orderings(list) ==
    {[i \in 1..Len(list) |-> list[p[i]]] :
        p \in {q \in [1..Len(list) -> 1..Len(list)] : \A i, j \in 1..Len(list) : q[i] = q[j] => i = j}}

RECURSIVE ArgsOf(_, _)
ArgsOf(list, kind) ==
    IF list = <<>> THEN <<>>
    ELSE IF Head(list).kind = kind THEN <<Head(list).arg>> \o ArgsOf(Tail(list), kind)
    ELSE ArgsOf(Tail(list), kind)

LastArg(list, kind) ==
    LET a == ArgsOf(list, kind) IN IF a = <<>> THEN 0 ELSE a[Len(a)]

\* no two options of the list give one field different values
OneValuePerField(list) ==
    /\ Cardinality(Range(ArgsOf(list, "withRootVersion"))) <= 1
    /\ Cardinality(Range(ArgsOf(list, "withRoleExpectedLength"))) <= 1

\* C13 as stated: the options of a fetch give the same pinned version and
\* expected length in whatever order they are applied, and the tests are the
\* withRoleTest arguments in the order applied.
C13_OrderIndependent ==
    todo = <<>> =>
        /\ \A q \in Orderings(applied) :
               /\ applyAll(q, freshOptions).version = opts.version
               /\ applyAll(q, freshOptions).expectedLength = opts.expectedLength
        /\ opts.tests = ArgsOf(applied, "withRoleTest")

\* C13 amended: each option changes its own field only, so the pinned
\* version is the argument of the withRootVersion applied last (0 if none),
\* the expected length that of the last withRoleExpectedLength, the tests
\* the withRoleTest arguments in the order applied; when no two options give
\* one field different values, every order gives the same version and length.
C13_LastWinsPerField ==
    /\ opts.version = LastArg(applied, "withRootVersion")
    /\ opts.expectedLength = LastArg(applied, "withRoleExpectedLength")
    /\ opts.tests = ArgsOf(applied, "withRoleTest")
    /\ (todo = <<>> /\ OneValuePerField(applied)) =>
           \A q \in Orderings(applied) :
               /\ applyAll(q, freshOptions).version = opts.version
               /\ applyAll(q, freshOptions).expectedLength = opts.expectedLength

\* a length, a test and a version were applied, the version last
C13_Witness ==
    /\ todo = <<>>
    /\ Len(applied) = 3
    /\ applied[1].kind = "withRoleExpectedLength"
    /\ applied[2].kind = "withRoleTest"
    /\ applied[3].kind = "withRootVersion"
    /\ opts = [version |-> applied[3].arg, expectedLength |-> applied[1].arg,
               tests |-> <<applied[2].arg>>]

\* the names of the fetches that returned no error, in call order
RECURSIVE OkNames(_)
OkNames(log) ==
    IF log = <<>> THEN <<>>
    ELSE IF Head(log).err = nil THEN <<Head(log).name>> \o OkNames(Tail(log))
    ELSE OkNames(Tail(log))

\* the delegations of the frames on the stack that the loops have passed
PassedDelegations ==
    UNION {{deleg[stack[j].roleName][k] :
                k \in {d \in 1..Len(deleg[stack[j].roleName]) : d < stack[j].i}} :
           j \in 1..Len(stack)}

\* C14: when a recursive call of getDelegatedTarget hands errTargetSeen to the
\* enclosing getDelegatedTarget, that one drops the error and goes on with its
\* next delegation; every delegation a loop has passed was given to fetch,
\* and in a returned tree every delegation of a recorded delegate was given
\* to fetch, is recorded if a fetch returned it, and is recorded in any case
\* when fewer than maxDelegationCount roles were fetched.
C14_SentinelSkipsOneSibling ==
    /\ [][(pc = "return" /\ stack # <<>> /\ err = errTargetSeen) =>
             (stack' = SetTopIdx(Top.i + 1) /\ pc' = "loop" /\ err' = nil)]_vars
    /\ [](PassedDelegations \subseteq Range(FetchedNames))
    /\ [](result.tree =>
             \A n \in DOMAIN targetLookup \ {roleTargets} :
                 \A d \in Range(deleg[n]) :
                     /\ d \in Range(FetchedNames)
                     /\ OkFetches(d) # {} => d \in DOMAIN targetLookup
                     /\ Cardinality(seen) < maxDelegationCount => d \in DOMAIN targetLookup)

\* a tree was returned, a delegate's fetch answered errTargetSeen and the
\* next delegation of the same role was then fetched and recorded
C14_Witness ==
    /\ result.tree
    /\ \E k \in 1..(Len(fetchLog) - 1) :
        /\ fetchLog[k].err = errTargetSeen
        /\ fetchLog[k + 1].err = nil
        /\ fetchLog[k + 1].name \in DOMAIN targetLookup
        /\ \E n \in DOMAIN targetLookup \ {roleTargets} :
               \E i \in 1..(Len(deleg[n]) - 1) :
                   /\ deleg[n][i] = fetchLog[k].name
                   /\ deleg[n][i + 1] = fetchLog[k + 1].name

\* C15: with a fetcher that answers errTargetSeen for every name it already
\* returned, the resolution of every graph ends, and the fetches that
\* returned a role are never more than the role names of the graph.
C15_TerminatesWithinGraph ==
    /\ [](Len(OkNames(fetchLog)) <= Cardinality(DOMAIN deleg))
    /\ [](\A i, j \in 1..Len(fetchLog) :
             (fetchLog[i].err = nil /\ fetchLog[j].err = nil /\ i # j)
                 => fetchLog[i].name # fetchLog[j].name)
    /\ <>(pc = "done")

\* the resolution of a graph with a self-delegating delegate has ended
C15_Witness ==
    /\ pc = "done"
    /\ result.tree
    /\ \E n \in DOMAIN targetLookup \ {roleTargets} : n \in Range(deleg[n])
    /\ \E k \in 1..Len(fetchLog) : fetchLog[k].err = errTargetSeen

\* C17: the recorded roles are the successfully fetched names, in order and
\* once each, at most the last fetch not yet recorded; a fetch is issued only
\* when every earlier successful fetch is recorded; a role is recorded only
\* right after its own successful fetch; the first record is the targets role.
C17_AppendFollowsFetch ==
    /\ [](\/ appendLog = OkNames(fetchLog)
          \/ /\ fetchLog # <<>>
             /\ fetchLog[Len(fetchLog)].err = nil
             /\ OkNames(fetchLog) = Append(appendLog, fetchLog[Len(fetchLog)].name))
    /\ [](appendLog # <<>> => appendLog[1] = roleTargets)
    /\ [][fetchLog' # fetchLog => appendLog = OkNames(fetchLog)]_vars
    /\ [][appendLog' # appendLog =>
             /\ fetchLog' = fetchLog
             /\ fetchLog[Len(fetchLog)].err = nil
             /\ appendLog' = Append(appendLog, fetchLog[Len(fetchLog)].name)
             /\ appendLog' = OkNames(fetchLog)]_vars

\* three roles were fetched and recorded and a fourth fetch failed
C17_Witness ==
    /\ Len(appendLog) = 3
    /\ Len(fetchLog) >= 4
    /\ fetchLog[Len(fetchLog)].err # nil
    /\ appendLog = OkNames(fetchLog)

\* C18: a call of getDelegatedTarget returns errTargetSeen only as the
\* result of its own fetch; a return that follows a return of a deeper call
\* never carries errTargetSeen.
C18_SentinelOnlyFromOwnFetch ==
    /\ [][(pc' = "return" /\ err' = errTargetSeen) =>
             /\ pc = "fetch"
             /\ stack' = Pop
             /\ fetchLog' = Append(fetchLog, [name |-> Top.roleName, err |-> errTargetSeen])]_vars
    /\ [][(pc = "return" /\ pc' = "return") => err' # errTargetSeen]_vars

\* a call two levels below the top-level loop returned errTargetSeen to its caller
C18_Witness ==
    /\ pc = "return"
    /\ err = errTargetSeen
    /\ Len(stack) >= 1
====
